---- MODULE Spec2Model ----
(***************************************************************************)
(* Model of the generation pipeline (src/modules/pipeline_fns.py) and of   *)
(* the dataset alignment code (src/utils/process_generations.py).          *)
(*                                                                         *)
(* Strings that the code parses (column names, model names) are modelled   *)
(* as the sequence of their "_"-separated segments, i.e. as the value of   *)
(* str.split("_"): "prompt_1" is <<"prompt", "1">>.  Free text (sources,   *)
(* prompts, completions) is a sequence of opaque string tokens.            *)
(* A DataFrame is a record [cols, rows]: cols is the column index in       *)
(* order, rows the sequence of rows, each a function from column to cell.  *)
(***************************************************************************)
EXTENDS Integers, Sequences, FiniteSets, TLC

VARIABLES
    \* ---- completions_generator (pipeline_fns.py) ----
    gpc,            \* position in create_prompt / completions_generator / the round trip
    datafile,       \* dataset name given to create_prompt
    prompt_number,  \* prompt number given to create_prompt, or to get_paths
    df,             \* the caller's dataframe (id, source, human_completions, prompt_<n>)
    prompt_col,     \* name of the prompt column
    model_name,     \* name of the model (names the completions column)
    batch_size,     \* prompts dispatched per step
    outfilepath,    \* "None" or a path
    completions,    \* the list built by the loop
    calls,          \* log of the calls made to the model callable
    completions_df, \* the returned dataframe
    sink,           \* what has been written to outfilepath (sequence of writes)
    normalized,     \* completions_df after combine_data's normaliser
    \* ---- get_paths / load_dataset / combine_data / preprocess_datasets ----
    entry,          \* the function the caller invoked
    pc,             \* position in preprocess_datasets / combine_data
    ai_dir,         \* storage: model -> set of files in its directory
    models,         \* list of models (argument)
    datasets,       \* list of datasets (argument)
    temp,           \* temperature selector (argument)
    subset,         \* subset (argument)
    di,             \* index of the dataset being processed
    ai_paths,       \* result of get_paths
    human_path,     \* result of get_paths
    ai_dfs,         \* the list of AI dataframes (mutated in place)
    raw_dfs,        \* the caller's tables as they were supplied
    human_df,       \* the human dataframe
    idx,            \* loop index of combine_data
    combined_df,    \* result of combine_data
    all_dfs,        \* per-dataset results of preprocess_datasets
    final_df,       \* result of preprocess_datasets
    stdout,         \* the warnings printed
    err,            \* the exception that ended the run, or "none"
    \* ---- get_paths and extract_min_max_tokens called on their own ----
    dir_order,      \* storage: model -> the order in which iterdir() enumerates its directory
    dataset_arg,    \* dataset name (argument "dataset")
    lookup_module,  \* the module whose extract_min_max_tokens is called
    min_max         \* what extract_min_max_tokens returned, or the exception it raised

gvars == <<gpc, datafile, prompt_number, df, prompt_col, model_name, batch_size, outfilepath, completions,
           calls, completions_df, sink, normalized>>
avars == <<entry, pc, ai_dir, models, datasets, temp, subset, di, ai_paths, human_path, ai_dfs,
           raw_dfs, human_df, idx, combined_df, all_dfs, final_df, stdout, err>>
uvars == <<dir_order, dataset_arg, lookup_module, min_max>>
vars == <<gvars, avars, uvars>>

----------------------------------------------------------------------------
(* Bounds *)
MaxDocs == 3        \* documents in a corpus
MaxFiles == 2       \* files in one model directory

----------------------------------------------------------------------------
(* Names *)
ID == <<"id">>
SOURCE == <<"source">>
HUMAN_COMPLETIONS == <<"human", "completions">>
PROMPT == <<"prompt">>
PROMPT_NUMBER == <<"prompt", "number">>
MODEL == <<"model">>
COMPLETIONS == <<"completions">>
DATASET == <<"dataset">>
HUMAN == <<"human">>
NaN == <<"NaN">>
None == "None"
NoTable == [cols |-> <<>>, rows |-> <<>>]

Range(s) == {s[i] : i \in 1..Len(s)}
Min(a, b) == IF a < b THEN a ELSE b

\* col.startswith("prompt_")
StartsWithPrompt(col) == Len(col) >= 2 /\ col[1] = "prompt"
\* col.endswith("_completions")
EndsWithCompletions(col) == Len(col) >= 2 /\ col[Len(col)] = "completions"
\* f"{model_name}_completions"
CompletionsColName(name) == Append(name, "completions")
\* f"prompt_{prompt_number}"
PromptColName(n) == <<"prompt", n>>
\* prompt_colname.split("_")[1]
PromptNumberOf(col) == <<col[2]>>
StripAllCompletions(col) ==
    IF EndsWithCompletions(col) THEN SelectSeq(col, LAMBDA s : s # "completions") ELSE col
\* re.sub(r"_completions$", "", mdl_colname)
StripCompletions(col) ==
    IF EndsWithCompletions(col) THEN SubSeq(col, 1, Len(col) - 1) ELSE col

----------------------------------------------------------------------------
(* DataFrame operations (pandas) *)
Column(t, c) == [i \in 1..Len(t.rows) |-> t.rows[i][c]]
\* t[cs].copy()
Project(t, cs) ==
    [cols |-> cs, rows |-> [i \in 1..Len(t.rows) |-> [c \in Range(cs) |-> t.rows[i][c]]]]
\* t[name] = vals  (vals: one value per row)
SetCol(t, name, vals) ==
    LET cs == IF name \in Range(t.cols) THEN t.cols ELSE Append(t.cols, name)
    IN [cols |-> cs,
        rows |-> [i \in 1..Len(t.rows) |->
                    [c \in Range(cs) |-> IF c = name THEN vals[i] ELSE t.rows[i][c]]]]
\* t[name] = v  (a scalar, broadcast)
SetColScalar(t, name, v) == SetCol(t, name, [i \in 1..Len(t.rows) |-> v])
\* t.rename(columns={old: new}); a column that is absent is ignored
Rename(t, old, new) ==
    IF old \notin Range(t.cols) THEN t
    ELSE LET cs == [i \in 1..Len(t.cols) |-> IF t.cols[i] = old THEN new ELSE t.cols[i]]
         IN [cols |-> cs,
             rows |-> [i \in 1..Len(t.rows) |->
                         [c \in Range(cs) |-> IF c = new THEN t.rows[i][old] ELSE t.rows[i][c]]]]
ILocUpTo(t, n) == [cols |-> t.cols, rows |-> SubSeq(t.rows, 1, Min(n, Len(t.rows)))]
\* t.loc[:n]  (label slice on the default RangeIndex 0..len-1: labels 0..n, inclusive)
LocUpTo(t, n) == [cols |-> t.cols, rows |-> SubSeq(t.rows, 1, Min(n + 1, Len(t.rows)))]


\* pd.concat(dfs, ignore_index=True, axis=0): the union of the columns in order of
\* first appearance, the rows in order, a missing cell filled with NaN
RECURSIVE UnionCols(_)
UnionCols(dfs) ==
    IF Len(dfs) = 0 THEN <<>>
    ELSE LET rest == UnionCols(SubSeq(dfs, 1, Len(dfs) - 1))
             last == dfs[Len(dfs)].cols
         IN rest \o SelectSeq(last, LAMBDA c : c \notin Range(rest))
Pad(row, cs) == [c \in Range(cs) |-> IF c \in DOMAIN row THEN row[c] ELSE NaN]
RECURSIVE ConcatRows(_, _)
ConcatRows(dfs, cs) ==
    IF Len(dfs) = 0 THEN <<>>
    ELSE [i \in 1..Len(dfs[1].rows) |-> Pad(dfs[1].rows[i], cs)] \o ConcatRows(Tail(dfs), cs)
Concat(dfs) == [cols |-> UnionCols(dfs), rows |-> ConcatRows(dfs, UnionCols(dfs))]

\* left.merge(right[["id", "source"]], on="id", how="left"): the left rows in order,
\* one output row per matching right row, NaN where none matches
RECURSIVE LeftJoinRows(_, _, _)
LeftJoinRows(lrows, rrows, cs) ==
    IF Len(lrows) = 0 THEN <<>>
    ELSE LET r == Head(lrows)
             ms == SelectSeq(rrows, LAMBDA h : h[ID] = r[ID])
             ext(v) == [c \in Range(cs) |-> IF c = SOURCE THEN v ELSE r[c]]
         IN (IF Len(ms) = 0 THEN <<ext(NaN)>> ELSE [k \in 1..Len(ms) |-> ext(ms[k][SOURCE])])
            \o LeftJoinRows(Tail(lrows), rrows, cs)
\* a "source" column on both sides gets the suffixes _x and _y
MergeSource(left, right) ==
    IF SOURCE \in Range(left.cols)
    THEN LET l == Rename(left, SOURCE, <<"source", "x">>)
             j == [cols |-> Append(l.cols, SOURCE),
                   rows |-> LeftJoinRows(l.rows, right.rows, Append(l.cols, SOURCE))]
         IN Rename(j, SOURCE, <<"source", "y">>)
    ELSE [cols |-> Append(left.cols, SOURCE),
          rows |-> LeftJoinRows(left.rows, right.rows, Append(left.cols, SOURCE))]

----------------------------------------------------------------------------
(* combine_data: the normaliser (loop body) *)
Ok(t) == [ok |-> TRUE, df |-> t, err |-> "none"]
Raise(e) == [ok |-> FALSE, df |-> NoTable, err |-> e]
\* Python truth value of an optional int, None being <<>> and n being <<n>>
Truthy(opt) == Len(opt) = 1 /\ opt[1] # 0

\* lines 70-73
Subsetted(d, sub) == IF Truthy(sub) THEN LocUpTo(d, sub[1]) ELSE d
\* [col for col in new_df.columns if col.startswith("prompt_")]
PromptCols(d) == SelectSeq(d.cols, StartsWithPrompt)
\* [col for col in new_df.columns if col.endswith("_completions")]
CompletionsCols(d) == SelectSeq(d.cols, EndsWithCompletions)
\* lines 76-78
StandardisePrompt(d) ==
    LET prompt_colname == PromptCols(d)[1]
    IN Rename(SetColScalar(d, PROMPT_NUMBER, PromptNumberOf(prompt_colname)),
              prompt_colname, PROMPT)
\* lines 80-82
StandardiseModel(d) ==
    LET mdl_colname == CompletionsCols(d)[1]
    IN Rename(SetColScalar(d, MODEL, StripCompletions(mdl_colname)),
              mdl_colname, COMPLETIONS)
\* lines 70-85: the new_df that replaces ai_dfs[idx], or the exception raised
NormaliseDf(d, human, sub) ==
    LET new0 == Subsetted(d, sub)
    IN IF Len(PromptCols(new0)) = 0 THEN Raise("IndexError")
       ELSE LET new1 == StandardisePrompt(new0)
            IN IF Len(CompletionsCols(new1)) = 0 THEN Raise("IndexError")
               ELSE LET new2 == StandardiseModel(new1)
                    IN IF ID \notin Range(new2.cols)
                          \/ ~({ID, SOURCE} \subseteq Range(human.cols))
                       THEN Raise("KeyError")
                       ELSE Ok(MergeSource(new2, human))


----------------------------------------------------------------------------
(* completions_generator (pipeline_fns.py) *)
\* what the model callable can return for a prompt: [{"generated_text": txt}]
Generations == {<<"gen", "a">>, <<"gen", "b">>}
ModelReturn(txt) == <<[generated_text |-> txt]>>
\* list(completion[0].values())[0]
CompletionTxt(completion) == completion[1].generated_text

PrependCompletion(lst, txt) == <<txt>> \o lst
\* completions.append(completion_txt)
AppendCompletion(lst, txt) == Append(lst, txt)

\* the prompts of the next batch: positions done+1 .. done+batch_size of df[prompt_col]
BatchEnd(done, bs, n) == Min(done + bs, n)

\* the loop over one batch, every call returning: outs[k] is what the model callable
\* returns for the k-th prompt of the batch
RECURSIVE RunBatch(_, _, _)
RunBatch(lst, prompts, outs) ==
    IF Len(prompts) = 0 THEN lst
    ELSE RunBatch(AppendCompletion(lst, CompletionTxt(outs[1])), Tail(prompts), Tail(outs))
LogCalls(prompts, outs) ==
    [k \in 1..Len(prompts) |-> [prompt |-> prompts[k], out |-> outs[k]]]

\* lines 95-98
BuildCompletionsDf(d, pcol, mname, lst) ==
    SetCol(Project(d, <<ID, pcol>>), CompletionsColName(mname), lst)
\* to_json(orient="records", lines=True): one object per row, in row order, its
\* keys in column order
ToJsonLines(t) ==
    [i \in 1..Len(t.rows) |->
        [k \in 1..Len(t.cols) |-> [key |-> t.cols[k], value |-> t.rows[i][t.cols[k]]]]]

WriteSinkAlways(snk, path, t) == Append(snk, ToJsonLines(t))
\* lines 101-105: the file is opened and written in one piece, if a path is given
WriteSink(snk, path, t) == IF path # None THEN Append(snk, ToJsonLines(t)) ELSE snk
SkipCallableError == "loop"
\* line 86 is inside no try block: an exception of the model callable leaves the
\* loop and completions_generator itself
AfterCallableError == "raised"

GenBatch ==
    /\ gpc = "loop"
    /\ Len(completions) < Len(df.rows)
    /\ LET lo == Len(completions) + 1
           hi == BatchEnd(Len(completions), batch_size, Len(df.rows))
           prompts == SubSeq(Column(df, prompt_col), lo, hi)
       IN \E txts \in [1..(hi - lo + 1) -> Generations] :
            LET outs == [k \in 1..(hi - lo + 1) |-> ModelReturn(txts[k])]
            IN /\ completions' = RunBatch(completions, prompts, outs)
               /\ calls' = calls \o LogCalls(prompts, outs)
    /\ UNCHANGED <<gpc, datafile, prompt_number, df, prompt_col, model_name, batch_size, outfilepath,
                   completions_df, sink, normalized, avars, uvars>>

\* the model callable raises on a prompt of the next batch, after j prompts of it
GenFail ==
    /\ gpc = "loop"
    /\ Len(completions) < Len(df.rows)
    /\ LET lo == Len(completions) + 1
           hi == BatchEnd(Len(completions), batch_size, Len(df.rows))
       IN \E j \in 0..(hi - lo) : \E txts \in [1..j -> Generations] :
            LET prompts == SubSeq(Column(df, prompt_col), lo, lo + j - 1)
                outs == [k \in 1..j |-> ModelReturn(txts[k])]
            IN /\ completions' = RunBatch(completions, prompts, outs)
               /\ calls' = (calls \o LogCalls(prompts, outs))
                             \o <<[prompt |-> Column(df, prompt_col)[lo + j], out |-> <<>>]>>
    /\ gpc' = AfterCallableError
    /\ UNCHANGED <<datafile, prompt_number, df, prompt_col, model_name, batch_size, outfilepath,
                   completions_df, sink, normalized, avars, uvars>>

\* lines 94-107
GenReturn ==
    /\ gpc = "loop"
    /\ Len(completions) = Len(df.rows)
    /\ completions_df' = BuildCompletionsDf(df, prompt_col, model_name, completions)
    /\ sink' = WriteSink(sink, outfilepath, completions_df')
    /\ gpc' = "returned"
    /\ UNCHANGED <<datafile, prompt_number, df, prompt_col, model_name, batch_size, outfilepath, completions,
                   calls, normalized, avars, uvars>>

\* the returned table handed to the normaliser of combine_data, with the human table
\* it was generated from
RoundTrip ==
    /\ gpc = "returned"
    /\ normalized' = NormaliseDf(completions_df, Project(df, <<ID, SOURCE, HUMAN_COMPLETIONS>>), <<>>)
    /\ gpc' = "normalized"
    /\ UNCHANGED <<datafile, prompt_number, df, prompt_col, model_name, batch_size, outfilepath, completions,
                   calls, completions_df, sink, avars, uvars>>


----------------------------------------------------------------------------
(* The human corpora and create_prompt (pipeline_fns.py) *)
MaxPromptNumber == 4    \* prompt numbers the caller may ask for

\* human_datasets/<dataset>/data.ndjson with the documents ids, in order
HumanTable(dataset, ids) ==
    [cols |-> <<ID, SOURCE, HUMAN_COMPLETIONS>>,
     rows |-> [i \in 1..Len(ids) |->
                 (ID :> ids[i])
                 @@ (SOURCE :> (<<"src">> \o dataset \o <<ToString(ids[i])>>))
                 @@ (HUMAN_COMPLETIONS :> (<<"hum">> \o dataset \o <<ToString(ids[i])>>))]]

\* the prompts dict, keyed by f"{datafile}_{prompt_number}"
Prompts ==
    (<<"dailymail", "cnn", "1">> :> <<"summarize the main points of this article: ">>)
    @@ (<<"dailymail", "cnn", "2">> :> <<"create a summary of the news article: ">>)
    @@ (<<"dailymail", "cnn", "3">> :> <<"write a short summarised text of the news article: ">>)
    @@ (<<"stories", "1">> :> <<"continue the story: ">>)
    @@ (<<"stories", "2">> :> <<"write a small text based on this story: ">>)
    @@ (<<"stories", "3">> :> <<"complete the text: ">>)
    @@ (<<"stories", "4">> :> <<"complete the story: ">>)
    @@ (<<"mrpc", "1">> :> <<"paraphrase this text: ">>)
    @@ (<<"mrpc", "2">> :> <<"summarize this text: ">>)
    @@ (<<"mrpc", "3">> :> <<"summarize this: ">>)
    @@ (<<"mrpc", "4">> :> <<"create a summary of this: ">>)
    @@ (<<"dailydialog", "1">> :> <<"respond to the final sentence: ">>)
    @@ (<<"dailydialog", "2">> :> <<"continue this dialog: ">>)
\* f"{datafile}_{prompt_number}"
PromptKey(dfile, n) == Append(dfile, ToString(n))
PromptSeriesSpaced(d, key) ==
    [i \in 1..Len(d.rows) |-> Prompts[key] \o <<" ">> \o d.rows[i][SOURCE]]
\* prompts[key] + df["source"]
PromptSeries(d, key) == [i \in 1..Len(d.rows) |-> Prompts[key] \o d.rows[i][SOURCE]]

\* prompts.get(key, "") in place of prompts[key]
CreatePromptDefault(d, dfile, n) ==
    [ok |-> TRUE,
     df |-> SetCol(d, PromptColName(ToString(n)),
                   IF PromptKey(dfile, n) \in DOMAIN Prompts
                   THEN PromptSeries(d, PromptKey(dfile, n))
                   ELSE Column(d, SOURCE))]
\* line 60: the right-hand side is evaluated first, so a KeyError (no such key in
\* prompts, or no "source" column) leaves df as it was; otherwise df gets the
\* prompt column in place
CreatePromptDf(d, dfile, n) ==
    IF PromptKey(dfile, n) \in DOMAIN Prompts /\ SOURCE \in Range(d.cols)
    THEN [ok |-> TRUE,
          df |-> SetCol(d, PromptColName(ToString(n)), PromptSeries(d, PromptKey(dfile, n)))]
    ELSE [ok |-> FALSE, df |-> d]

\* create_prompt(df, datafile, prompt_number), lines 36-62
CreatePrompt ==
    /\ gpc = "create_prompt"
    /\ df' = CreatePromptDf(df, datafile, prompt_number).df
    /\ gpc' = IF CreatePromptDf(df, datafile, prompt_number).ok THEN "loop" ELSE "raised"
    /\ UNCHANGED <<datafile, prompt_number, prompt_col, model_name, batch_size, outfilepath,
                   completions, calls, completions_df, sink, normalized, avars, uvars>>

----------------------------------------------------------------------------
(* Inputs of the generation run *)
GenDatasets == {<<"stories">>, <<"dailydialog">>}
GenModelNames == {<<"beluga7b">>, <<"llama2", "chat13b">>, <<"prompt", "completions">>}
\* document ids of a corpus: distinct, in any order
IdSeqs ==
    {s \in UNION {[1..n -> 1..MaxDocs] : n \in 0..MaxDocs} :
        \A i, j \in 1..Len(s) : i # j => s[i] # s[j]}

\* extract_min_max_tokens has not been called
NoResult == [ok |-> FALSE, pair |-> <<>>, err |-> "none", msg |-> <<>>]
UtilIdle == dir_order = <<>> /\ dataset_arg = <<>> /\ lookup_module = "none" /\ min_max = NoResult

AlignIdle ==
    /\ entry = "none" /\ pc = "idle" /\ ai_dir = <<>> /\ models = <<>> /\ datasets = <<>>
    /\ temp = <<>> /\ subset = <<>> /\ di = 0 /\ ai_paths = <<>> /\ human_path = <<>>
    /\ ai_dfs = <<>> /\ raw_dfs = <<>> /\ human_df = NoTable /\ idx = 0
    /\ combined_df = NoTable /\ all_dfs = <<>> /\ final_df = NoTable /\ stdout = <<>>
    /\ err = "none"

InitGen ==
    /\ gpc = "create_prompt"
    /\ datafile \in GenDatasets
    /\ prompt_number \in 1..MaxPromptNumber
    /\ \E ids \in IdSeqs : df = HumanTable(datafile, ids)
    /\ prompt_col = PromptColName(ToString(prompt_number))
    /\ model_name \in GenModelNames
    /\ batch_size \in {1, 2} \cup ({Len(df.rows)} \ {0})
    /\ outfilepath \in {None, "out.ndjson"}
    /\ completions = <<>>
    /\ calls = <<>>
    /\ completions_df = NoTable
    /\ sink = <<>>
    /\ normalized = Raise("none")
    /\ AlignIdle
    /\ UtilIdle

NextGen == CreatePrompt \/ GenBatch \/ GenFail \/ GenReturn \/ RoundTrip
SpecGen == InitGen /\ [][NextGen]_vars


----------------------------------------------------------------------------
(* Storage: ai_datasets/<model>/<dataset>_prompt_<n>[_temp<t>].ndjson *)
(* A file name is the sequence of its tokens ("_", ".", ".ndjson", single  *)
(* digits, words): startswith and endswith are taken on token sequences,   *)
(* which agrees with the strings for identifiers built from these tokens.  *)
RECURSIVE Underscored(_)
\* "_".join(segments) as tokens
Underscored(segs) ==
    IF Len(segs) <= 1 THEN segs
    ELSE <<segs[1], "_">> \o Underscored(Tail(segs))
RECURSIVE Digits(_)
\* str(n) as digit tokens
Digits(n) == IF n < 10 THEN <<ToString(n)>> ELSE Append(Digits(n \div 10), ToString(n % 10))
StartsWith(name, ident) ==
    Len(ident) <= Len(name) /\ SubSeq(name, 1, Len(ident)) = ident
EndsWith(name, ident) ==
    Len(ident) <= Len(name) /\ SubSeq(name, Len(name) - Len(ident) + 1, Len(name)) = ident

\* a file of a model directory: its dataset, prompt number, temperature (<<>>: none)
\* and number of rows
FileName(f) ==
    Underscored(f.dataset) \o <<"_", "prompt", "_">> \o Digits(f.prompt)
        \o (IF Len(f.temp) = 0 THEN <<>> ELSE <<"_", "temp">> \o f.temp) \o <<".ndjson">>
\* what the generation run for (model, dataset, prompt, temp) wrote: the first
\* f.rows documents of the corpus with their prompt and the model's completions
FileContent(m, f) ==
    LET h == HumanTable(f.dataset, [i \in 1..f.rows |-> i])
        pcol == PromptColName(ToString(f.prompt))
        d == SetCol(h, pcol, PromptSeries(h, PromptKey(f.dataset, f.prompt)))
    IN BuildCompletionsDf(d, pcol, m,
          [i \in 1..f.rows |-> <<"gen">> \o m \o <<ToString(f.prompt)>> \o f.temp \o <<ToString(i)>>])

\* the orders in which iterdir() may enumerate a directory
Perms(S) == {s \in [1..Cardinality(S) -> S] : \A i, j \in 1..Cardinality(S) : i # j => s[i] # s[j]}
Path(m, f) == [model |-> m, name |-> FileName(f)]
\* pd.read_json(p, lines=True)
ReadJson(dir, p) == FileContent(p.model, CHOOSE f \in dir[p.model] : FileName(f) = p.name)

----------------------------------------------------------------------------
(* get_paths *)
TruthyStr(t) == Len(t) > 0
KeepsFileBoth(name, dataset, tmp, pn) ==
    IF Truthy(pn) /\ TruthyStr(tmp)
    THEN StartsWith(name, Underscored(dataset) \o <<"_", "prompt", "_">> \o Digits(pn[1])
                            \o <<"_", "temp">> \o tmp \o <<".ndjson">>)
    ELSE IF Truthy(pn)
    THEN StartsWith(name, Underscored(dataset) \o <<"_", "prompt", "_">> \o Digits(pn[1]))
    ELSE IF TruthyStr(tmp)
    THEN EndsWith(name, tmp \o <<".ndjson">>)
    ELSE TRUE
\* lines 19-35: whether a file of the model directory is kept
KeepsFile(name, dataset, tmp, pn) ==
    IF Truthy(pn)
    THEN StartsWith(name, Underscored(dataset) \o <<"_", "prompt", "_">> \o Digits(pn[1]))
    ELSE IF TruthyStr(tmp)
    THEN EndsWith(name, tmp \o <<".ndjson">>)
    ELSE IF Truthy(pn) /\ TruthyStr(tmp)
    THEN StartsWith(name, Underscored(dataset) \o <<"_", "prompt", "_">> \o Digits(pn[1])
                            \o <<"_", "temp">> \o tmp \o <<".ndjson">>)
    ELSE TRUE
\* lines 13-35: listing[k] is the order in which iterdir() enumerates models[k]
RECURSIVE AiPaths(_, _, _, _, _)
AiPaths(mods, listing, dataset, tmp, pn) ==
    IF Len(mods) = 0 THEN <<>>
    ELSE AiPaths(SubSeq(mods, 1, Len(mods) - 1), listing, dataset, tmp, pn)
         \o SelectSeq([i \in 1..Len(listing[Len(mods)]) |-> Path(mods[Len(mods)], listing[Len(mods)][i])],
                      LAMBDA p : KeepsFile(p.name, dataset, tmp, pn))
\* line 38
HumanPath(dataset) == <<"human_datasets">> \o dataset \o <<"data.ndjson">>

----------------------------------------------------------------------------
(* combine_data, lines 90-101 *)
HumanQueryFirst(h, dfs) ==
    [cols |-> h.cols,
     rows |-> SelectSeq(h.rows, LAMBDA r : r[ID] \in Range(Column(dfs[1], ID)))]
\* human_df.query('id in @ai_dfs[1]["id"]'): Python index 1 is the second table
HumanQuery(h, dfs) ==
    [cols |-> h.cols,
     rows |-> SelectSeq(h.rows, LAMBDA r : r[ID] \in Range(Column(dfs[1 + 1], ID)))]
\* lines 90-93
HumanRecords(h, dfs) ==
    Rename(SetColScalar(HumanQuery(h, dfs), MODEL, HUMAN), HUMAN_COMPLETIONS, COMPLETIONS)
AiFirst(h, dfs) == dfs \o <<h>>
\* line 96: [human_df, *ai_dfs]
AllDfs(h, dfs) == <<h>> \o dfs
\* lines 90-99
CombinedDf(h, dfs) == Concat(AllDfs(HumanRecords(h, dfs), dfs))


----------------------------------------------------------------------------
(* preprocess_datasets and its callees, step by step *)
\* pd.read_json(human_path, lines=True): the corpus of the dataset named in the path
ReadHuman(path) == HumanTable(SubSeq(path, 2, Len(path) - 1), [i \in 1..MaxDocs |-> i])
EmptyWarning == "[WARNING:] Length of ai paths is zero. Ensure that you have valid arguments."
WarnNever(out, paths) == out
\* lines 40-41
WarnIfEmpty(out, paths) == IF Len(paths) = 0 THEN Append(out, EmptyWarning) ELSE out

\* get_paths(ai_dir, human_dir, models, dataset, temp=temp), line 123
GetPaths ==
    /\ pc = "get_paths"
    /\ \E listing \in [1..Len(models) -> UNION {Perms(ai_dir[m]) : m \in DOMAIN ai_dir}] :
         /\ \A k \in 1..Len(models) : listing[k] \in Perms(ai_dir[models[k]])
         /\ ai_paths' = AiPaths(models, listing, datasets[di], temp, <<>>)
    /\ human_path' = HumanPath(datasets[di])
    /\ stdout' = WarnIfEmpty(stdout, ai_paths')
    /\ pc' = "load"
    /\ UNCHANGED <<entry, ai_dir, models, datasets, temp, subset, di, ai_dfs, raw_dfs, human_df,
                   idx, combined_df, all_dfs, final_df, err, gvars, uvars>>

\* load_dataset, lines 50-53
LoadDataset ==
    /\ pc = "load"
    /\ ai_dfs' = [k \in 1..Len(ai_paths) |-> ReadJson(ai_dir, ai_paths[k])]
    /\ raw_dfs' = ai_dfs'
    /\ human_df' = ReadHuman(human_path)
    /\ idx' = 0
    /\ pc' = "normalise"
    /\ UNCHANGED <<entry, ai_dir, models, datasets, temp, subset, di, ai_paths, human_path,
                   combined_df, all_dfs, final_df, stdout, err, gvars, uvars>>

\* combine_data, one iteration of the loop of lines 68-88
NormaliseStep ==
    /\ pc = "normalise"
    /\ idx < Len(ai_dfs)
    /\ LET r == NormaliseDf(ai_dfs[idx + 1], human_df, subset)
       IN IF r.ok
          THEN /\ ai_dfs' = [ai_dfs EXCEPT ![idx + 1] = r.df]
               /\ idx' = idx + 1
               /\ UNCHANGED <<pc, err>>
          ELSE /\ pc' = "raised"
               /\ err' = r.err
               /\ UNCHANGED <<ai_dfs, idx>>
    /\ UNCHANGED <<entry, ai_dir, models, datasets, temp, subset, di, ai_paths, human_path,
                   raw_dfs, human_df, combined_df, all_dfs, final_df, stdout, gvars, uvars>>

\* combine_data, lines 90-101
Align ==
    /\ pc = "normalise"
    /\ idx = Len(ai_dfs)
    /\ IF Len(ai_dfs) < 2
       THEN /\ pc' = "raised"
            /\ err' = "IndexError"
            /\ UNCHANGED combined_df
       ELSE /\ combined_df' = CombinedDf(human_df, ai_dfs)
            /\ pc' = IF entry = "combine_data" THEN "done" ELSE "tag"
            /\ UNCHANGED err
    /\ UNCHANGED <<entry, ai_dir, models, datasets, temp, subset, di, ai_paths, human_path,
                   ai_dfs, raw_dfs, human_df, idx, all_dfs, final_df, stdout, gvars, uvars>>

\* preprocess_datasets, lines 128-130 and the loop header
TagAndAppend ==
    /\ pc = "tag"
    /\ all_dfs' = Append(all_dfs, SetColScalar(combined_df, DATASET, datasets[di]))
    /\ IF di < Len(datasets)
       THEN di' = di + 1 /\ pc' = "get_paths"
       ELSE di' = di /\ pc' = "finish"
    /\ UNCHANGED <<entry, ai_dir, models, datasets, temp, subset, ai_paths, human_path,
                   ai_dfs, raw_dfs, human_df, idx, combined_df, final_df, stdout, err, gvars, uvars>>

\* preprocess_datasets, lines 132-138
Finish ==
    /\ pc = "finish"
    /\ IF Len(datasets) > 1
       THEN final_df' = Concat(all_dfs) /\ pc' = "done" /\ UNCHANGED err
       ELSE IF Len(all_dfs) = 0
       THEN pc' = "raised" /\ err' = "IndexError" /\ UNCHANGED final_df
       ELSE final_df' = all_dfs[1] /\ pc' = "done" /\ UNCHANGED err
    /\ UNCHANGED <<entry, ai_dir, models, datasets, temp, subset, di, ai_paths, human_path,
                   ai_dfs, raw_dfs, human_df, idx, combined_df, all_dfs, stdout, gvars, uvars>>

----------------------------------------------------------------------------
(* Inputs of the alignment runs *)
STORIES == <<"stories">>
MRPC == <<"mrpc">>
BELUGA == <<"beluga7b">>
LLAMA == <<"llama2", "chat13b">>
MISTRAL == <<"mistral7b">>
AlignModels == {BELUGA, LLAMA}
AlignDatasets == {STORIES, MRPC}
InjectiveSeqs(S) ==
    {s \in UNION {[1..n -> S] : n \in 0..Cardinality(S)} :
        \A i, j \in 1..Len(s) : i # j => s[i] # s[j]}
\* the files a model directory may hold; the run of prompt 1 stopped one document early
FileChoices ==
    {[dataset |-> STORIES, prompt |-> 1, temp |-> <<"1">>, rows |-> MaxDocs - 1],
     [dataset |-> STORIES, prompt |-> 2, temp |-> <<>>, rows |-> MaxDocs],
     [dataset |-> MRPC, prompt |-> 1, temp |-> <<>>, rows |-> MaxDocs]}
DirChoices == {S \in SUBSET FileChoices : Cardinality(S) <= MaxFiles}

GenIdle ==
    /\ gpc = "idle" /\ datafile = <<>> /\ prompt_number = 0 /\ df = NoTable
    /\ prompt_col = <<>> /\ model_name = <<>> /\ batch_size = 0 /\ outfilepath = None
    /\ completions = <<>> /\ calls = <<>> /\ completions_df = NoTable /\ sink = <<>>
    /\ normalized = Raise("none")

\* preprocess_datasets(ai_dir, human_dir, models, datasets, subset, temp)
Init ==
    /\ entry = "preprocess_datasets"
    /\ models \in InjectiveSeqs(AlignModels) \ {<<>>}
    /\ ai_dir \in [AlignModels -> DirChoices]
    \* the directory of a model that is not asked for is never read: it is left empty
    /\ \A m \in AlignModels \ Range(models) : ai_dir[m] = {}
    /\ datasets \in InjectiveSeqs(AlignDatasets)
    /\ temp \in {<<>>, <<"1">>}
    /\ subset \in {<<>>, <<1>>}
    /\ di = (IF Len(datasets) = 0 THEN 0 ELSE 1)
    /\ pc = (IF Len(datasets) = 0 THEN "finish" ELSE "get_paths")
    /\ ai_paths = <<>> /\ human_path = <<>> /\ ai_dfs = <<>> /\ raw_dfs = <<>>
    /\ human_df = NoTable /\ idx = 0 /\ combined_df = NoTable /\ all_dfs = <<>>
    /\ final_df = NoTable /\ stdout = <<>> /\ err = "none"
    /\ GenIdle
    /\ UtilIdle

Next == GetPaths \/ LoadDataset \/ NormaliseStep \/ Align \/ TagAndAppend \/ Finish
Spec == Init /\ [][Next]_vars


----------------------------------------------------------------------------
(* combine_data called on tables of the caller's own *)
\* the models of main (line 145); the caller hands over at most one table per model
ModelPool == <<BELUGA, LLAMA, MISTRAL>>
ModelAt(k) == ModelPool[k]
\* the column layouts of a raw table of model m: the one completions_generator
\* writes, then two prompt columns, two completions columns, no prompt column,
\* no completions column
Layouts(m) ==
    <<  <<ID, PromptColName("1"), CompletionsColName(m)>>,
        <<ID, PromptColName("1"), PromptColName("2"), CompletionsColName(m)>>,
        <<ID, PromptColName("1"), CompletionsColName(m), CompletionsColName(<<"other">>)>>,
        <<ID, CompletionsColName(m)>>,
        <<ID, PromptColName("1")>>  >>
RawTable(cols, lo, hi, m) ==
    [cols |-> cols,
     rows |-> [i \in 1..(hi - lo + 1) |->
                 [c \in Range(cols) |->
                     IF c = ID THEN lo + i - 1
                     ELSE <<"cell">> \o c \o m \o <<ToString(lo + i - 1)>>]]]
\* a well-formed table over any range of ids, or an ill-formed one over the first ids
Shapes ==
    {sh \in [layout : 1..5, lo : 1..MaxDocs, hi : 1..MaxDocs] :
        /\ sh.lo <= sh.hi
        /\ (sh.layout # 1 => sh.lo = 1 /\ sh.hi = MaxDocs - 1)}

InitCombine ==
    /\ entry = "combine_data"
    /\ pc = "normalise"
    /\ \E n \in 0..Len(ModelPool) : \E shapes \in [1..n -> Shapes] :
         ai_dfs = [k \in 1..n |->
                     RawTable(Layouts(ModelAt(k))[shapes[k].layout], shapes[k].lo,
                              shapes[k].hi, ModelAt(k))]
    /\ raw_dfs = ai_dfs
    /\ \E h \in 0..MaxDocs : human_df = HumanTable(STORIES, [i \in 1..h |-> i])
    /\ subset \in {<<>>, <<0>>, <<1>>}
    /\ idx = 0
    /\ ai_dir = <<>> /\ models = <<>> /\ datasets = <<>> /\ temp = <<>> /\ di = 0
    /\ ai_paths = <<>> /\ human_path = <<>> /\ combined_df = NoTable /\ all_dfs = <<>>
    /\ final_df = NoTable /\ stdout = <<>> /\ err = "none"
    /\ GenIdle
    /\ UtilIdle

NextCombine == NormaliseStep \/ Align
SpecCombine == InitCombine /\ [][NextCombine]_vars


----------------------------------------------------------------------------
(* get_paths called on its own, with every selector *)
\* the temperatures of the file names: none, "1", "1.5" (main, line 148)
PathTemps == {<<>>, <<"1">>, <<"1", ".", "5">>}
PathFiles ==
    {[dataset |-> STORIES, prompt |-> 1, temp |-> <<"1">>, rows |-> MaxDocs],
     [dataset |-> STORIES, prompt |-> 1, temp |-> <<"1", ".", "5">>, rows |-> MaxDocs],
     [dataset |-> STORIES, prompt |-> 2, temp |-> <<>>, rows |-> MaxDocs],
     [dataset |-> STORIES, prompt |-> 21, temp |-> <<>>, rows |-> MaxDocs],
     [dataset |-> MRPC, prompt |-> 1, temp |-> <<"1">>, rows |-> MaxDocs]}
PathDirs == {S \in SUBSET PathFiles : Cardinality(S) <= MaxFiles}
\* the model directories that exist under ai_dir, each with its files
Storages == UNION {[D -> PathDirs] : D \in SUBSET AlignModels}
\* the order of iterdir() in the directory of the k-th model
ListingOf(mods, order) == [k \in 1..Len(mods) |-> order[mods[k]]]
\* model_path.iterdir() on a directory that does not exist raises FileNotFoundError
MissingDir(mods, dir) == \E k \in 1..Len(mods) : mods[k] \notin DOMAIN dir

\* get_paths(ai_dir, human_dir, models, dataset, temp, prompt_number), lines 9-43
GetPathsCall ==
    /\ pc = "get_paths"
    /\ entry = "get_paths"
    /\ IF MissingDir(models, ai_dir)
       THEN /\ pc' = "raised"
            /\ err' = "FileNotFoundError"
            /\ UNCHANGED <<ai_paths, human_path, stdout>>
       ELSE /\ ai_paths' = AiPaths(models, ListingOf(models, dir_order), dataset_arg, temp,
                                   prompt_number)
            /\ human_path' = HumanPath(dataset_arg)
            /\ stdout' = WarnIfEmpty(stdout, ai_paths')
            /\ pc' = "returned"
            /\ UNCHANGED err
    /\ UNCHANGED <<entry, ai_dir, models, datasets, temp, subset, di, ai_dfs, raw_dfs, human_df,
                   idx, combined_df, all_dfs, final_df, gvars, uvars>>

InitPaths ==
    /\ entry = "get_paths"
    /\ pc = "get_paths"
    /\ models \in InjectiveSeqs(AlignModels)
    /\ ai_dir \in Storages
    \* the directory of a model that is not asked for is never read: it is left out
    /\ DOMAIN ai_dir \subseteq Range(models)
    /\ dir_order \in [DOMAIN ai_dir -> UNION {Perms(S) : S \in PathDirs}]
    /\ \A m \in DOMAIN ai_dir : dir_order[m] \in Perms(ai_dir[m])
    /\ dataset_arg \in AlignDatasets
    /\ temp \in PathTemps
    /\ prompt_number \in {<<>>} \cup {<<n>> : n \in 1..MaxPromptNumber}
    /\ datasets = <<>> /\ subset = <<>> /\ di = 0
    /\ ai_paths = <<>> /\ human_path = <<>> /\ ai_dfs = <<>> /\ raw_dfs = <<>>
    /\ human_df = NoTable /\ idx = 0 /\ combined_df = NoTable /\ all_dfs = <<>>
    /\ final_df = NoTable /\ stdout = <<>> /\ err = "none"
    /\ gpc = "idle" /\ datafile = <<>> /\ df = NoTable
    /\ prompt_col = <<>> /\ model_name = <<>> /\ batch_size = 0 /\ outfilepath = None
    /\ completions = <<>> /\ calls = <<>> /\ completions_df = NoTable /\ sink = <<>>
    /\ normalized = Raise("none")
    /\ lookup_module = "none" /\ min_max = NoResult

NextPaths == GetPathsCall
SpecPaths == InitPaths /\ [][NextPaths]_vars


----------------------------------------------------------------------------
(* extract_min_max_tokens (generate/run_pipeline.py and modules/data_fns.py) *)
MaxNameSegments == 2    \* "_"-separated segments of the name that is looked up

DAILYMAIL_CNN == <<"dailymail", "cnn">>
DAILYDIALOG == <<"dailydialog">>
\* run_pipeline.py, lines 35-40: the dict valid_datasets, its keys in insertion order
ValidDatasetKeys == <<DAILYMAIL_CNN, STORIES, MRPC, DAILYDIALOG>>
ValidDatasets ==
    (DAILYMAIL_CNN :> <<6, 433>>) @@ (STORIES :> <<112, 1055>>)
    @@ (MRPC :> <<8, 47>>) @@ (DAILYDIALOG :> <<2, 220>>)
Returns(pair) == [ok |-> TRUE, pair |-> pair, err |-> "none", msg |-> <<>>]
Fails(e, m) == [ok |-> FALSE, pair |-> <<>>, err |-> e, msg |-> m]
\* run_pipeline.py, lines 42-46; the message is
\* f"Invalid dataset '{dataset}'. Choose from {', '.join(valid_datasets.keys())}"
RunPipelineLookup(name) ==
    IF name \notin DOMAIN ValidDatasets
    THEN Fails("ValueError", << <<"Invalid dataset">>, name, <<"Choose from">> >> \o ValidDatasetKeys)
    ELSE Returns(ValidDatasets[name])

\* sub in name, for names and patterns made of whole segments
Contains(name, sub) ==
    \E i \in 0..(Len(name) - Len(sub)) : SubSeq(name, i + 1, i + Len(sub)) = sub
\* data_fns.py, lines 34-48: four independent ifs, a later one overwrites an earlier
\* one; <<>> is the pair of locals that was never assigned
DataFnsAssigned(name) ==
    LET a == IF Contains(name, STORIES) THEN <<365, 998>> ELSE <<>>
        b == IF Contains(name, MRPC) THEN <<19, 28>> ELSE a
        c == IF Contains(name, DAILYMAIL_CNN) THEN <<44, 70>> ELSE b
    IN IF Contains(name, DAILYDIALOG) THEN <<6, 16>> ELSE c
\* data_fns.py, line 50: returning an unassigned local raises UnboundLocalError,
\* whose message names the local variable; a message is the sequence of its parts
DataFnsLookup(name) ==
    IF DataFnsAssigned(name) = <<>>
    THEN Fails("UnboundLocalError",
               << <<"local variable">>, <<"min", "tokens">>, <<"referenced before assignment">> >>)
    ELSE Returns(DataFnsAssigned(name))

\* extract_min_max_tokens(dataset) of generate/run_pipeline.py
ExtractMinMaxTokens ==
    /\ lookup_module = "run_pipeline"
    /\ min_max = NoResult
    /\ min_max' = RunPipelineLookup(dataset_arg)
    /\ UNCHANGED <<dir_order, dataset_arg, lookup_module, gvars, avars>>

\* extract_min_max_tokens(datafilename) of modules/data_fns.py
ExtractMinMaxTokensDataFns ==
    /\ lookup_module = "data_fns"
    /\ min_max = NoResult
    /\ min_max' = DataFnsLookup(dataset_arg)
    /\ UNCHANGED <<dir_order, dataset_arg, lookup_module, gvars, avars>>

NameSegments == {"dailymail", "cnn", "stories", "mrpc", "dailydialog", "xsum"}
LookupNames == UNION {[1..n -> NameSegments] : n \in 0..MaxNameSegments}

InitLookup ==
    /\ lookup_module \in {"run_pipeline", "data_fns"}
    /\ dataset_arg \in LookupNames
    /\ min_max = NoResult
    /\ dir_order = <<>>
    /\ GenIdle
    /\ AlignIdle

NextLookup == ExtractMinMaxTokens \/ ExtractMinMaxTokensDataFns
SpecLookup == InitLookup /\ [][NextLookup]_vars


----------------------------------------------------------------------------
(* create_prompt called on its own, for every dataset and prompt number *)
\* the four datasets of the prompts dict and one that it does not have
PromptDatasets == {DAILYMAIL_CNN, STORIES, MRPC, DAILYDIALOG, <<"xsum">>}

InitPrompt ==
    /\ gpc = "create_prompt"
    /\ datafile \in PromptDatasets
    /\ prompt_number \in 1..MaxPromptNumber
    /\ \E ids \in IdSeqs : df = HumanTable(datafile, ids)
    /\ prompt_col = PromptColName(ToString(prompt_number))
    /\ model_name = <<>> /\ batch_size = 0 /\ outfilepath = None
    /\ completions = <<>> /\ calls = <<>> /\ completions_df = NoTable /\ sink = <<>>
    /\ normalized = Raise("none")
    /\ AlignIdle
    /\ UtilIdle

NextPrompt == CreatePrompt
SpecPrompt == InitPrompt /\ [][NextPrompt]_vars


----------------------------------------------------------------------------
(* Properties *)
Ids(t) == Column(t, ID)
IdSet(t) == Range(Ids(t))
HumanRowsOf(t) == SelectSeq(t.rows, LAMBDA r : r[MODEL] = HUMAN)
AiRowsOf(t) == SelectSeq(t.rows, LAMBDA r : r[MODEL] # HUMAN)
Returned == gpc \in {"returned", "normalized"}

\* C1: when completions_generator returns, the returned table has one record per
\* input document, the model callable was called once per document, and record i
\* carries the id and the prompt of document i and the text the callable returned
\* for the call made with prompt i, whatever the batch size
C1_OrderPreserved ==
    Returned =>
        /\ Len(completions_df.rows) = Len(df.rows)
        /\ Len(calls) = Len(df.rows)
        /\ \A i \in 1..Len(df.rows) :
             /\ completions_df.rows[i][ID] = df.rows[i][ID]
             /\ completions_df.rows[i][prompt_col] = df.rows[i][prompt_col]
             /\ calls[i].prompt = df.rows[i][prompt_col]
             /\ completions_df.rows[i][Append(model_name, "completions")]
                    = calls[i].out[1].generated_text
\* a returned run of MaxDocs documents in batches of 2, ids out of order, the
\* callable returning different texts
C1_Witness ==
    /\ gpc = "returned"
    /\ Len(df.rows) = MaxDocs
    /\ batch_size = 2
    /\ df.rows[1][ID] > df.rows[2][ID]
    /\ calls[1].out # calls[2].out

ReferenceIds ==
    LET n == IF subset \in {<<>>, <<0>>} THEN Len(raw_dfs[2].rows)
             ELSE Min(subset[1] + 1, Len(raw_dfs[2].rows))
    IN {raw_dfs[2].rows[i][ID] : i \in 1..n}
C3_EndToEnd ==
    (/\ entry = "preprocess_datasets" /\ pc \in {"done", "raised"}
     /\ Len(datasets) = 1 /\ Len(raw_dfs) = 1
     /\ Ids(raw_dfs[1]) = <<1, 2>> /\ Ids(human_df) = <<1, 2, 3>>)
    => /\ pc = "done"
       /\ Len(final_df.rows) = 4
       /\ Ids([rows |-> HumanRowsOf(final_df)]) = <<1, 2>>
       /\ Len(AiRowsOf(final_df)) = 2
       /\ \A i \in 1..4 : final_df.rows[i][DATASET] = datasets[1]

\* C4: in every returned table each id of an AI row has exactly one human row
\* (a run that cannot provide it fails instead of returning)
C4_HumanCoverage ==
    (entry = "combine_data" /\ pc = "done") =>
        \A i \in 1..Len(combined_df.rows) :
            combined_df.rows[i][MODEL] # HUMAN =>
                Cardinality({j \in 1..Len(combined_df.rows) :
                                /\ combined_df.rows[j][MODEL] = HUMAN
                                /\ combined_df.rows[j][ID] = combined_df.rows[i][ID]}) = 1

\* C5: in the table preprocess_datasets returns, no two rows of one dataset share
\* their (id, model) pair
C5_UniqueIdModel ==
    (entry = "preprocess_datasets" /\ pc = "done") =>
        \A i, j \in 1..Len(final_df.rows) :
            (/\ i # j
             /\ final_df.rows[i][DATASET] = final_df.rows[j][DATASET]
             /\ final_df.rows[i][MODEL] = final_df.rows[j][MODEL])
            => final_df.rows[i][ID] # final_df.rows[j][ID]

\* the supplied table has exactly one prompt_ column and one _completions column
OneOfEach(t) ==
    /\ Len(SelectSeq(t.cols, LAMBDA c : Len(c) >= 2 /\ c[1] = "prompt")) = 1
    /\ Len(SelectSeq(t.cols, LAMBDA c : Len(c) >= 2 /\ c[Len(c)] = "completions")) = 1
\* C6: a supplied table was normalised only if it has exactly one prompt_ column
\* and exactly one _completions column, and a table with exactly one of each is
\* never the one the normaliser fails on
C6_ColumnDetection ==
    entry = "combine_data" =>
        \A k \in 1..Len(raw_dfs) :
            /\ k <= idx => OneOfEach(raw_dfs[k])
            /\ (pc = "raised" /\ k = idx + 1) => ~OneOfEach(raw_dfs[k])

\* C7: combine_data returns a table only if some human row has its id in the
\* reference AI table
C7_FailsOnEmptyMatch ==
    (entry = "combine_data" /\ pc = "done") =>
        \E i \in 1..Len(human_df.rows) : human_df.rows[i][ID] \in IdSet(ai_dfs[2])

\* C8: the table completions_generator returned, put through the normaliser, has
\* for every record the same id, the prompt text under "prompt", the model name
\* under "model" and the completion text under "completions"
C8_RoundTrip ==
    gpc = "normalized" =>
        /\ normalized.ok
        /\ Len(normalized.df.rows) = Len(completions_df.rows)
        /\ \A i \in 1..Len(completions_df.rows) :
             /\ normalized.df.rows[i][ID] = completions_df.rows[i][ID]
             /\ normalized.df.rows[i][PROMPT] = completions_df.rows[i][prompt_col]
             /\ normalized.df.rows[i][MODEL] = model_name
             /\ normalized.df.rows[i][COMPLETIONS] = calls[i].out[1].generated_text
\* a round trip of several records of a model whose name has an underscore
C8_Witness ==
    /\ gpc = "normalized"
    /\ normalized.ok
    /\ Len(normalized.df.rows) = MaxDocs
    /\ model_name = <<"llama2", "chat13b">>
    /\ normalized.df.rows[1][COMPLETIONS] # normalized.df.rows[2][COMPLETIONS]

Pos(seq, x) == CHOOSE k \in 1..Len(seq) : seq[k] = x
ModelRank(m) == IF m = HUMAN THEN 0 ELSE Pos(models, m)
\* C9: in the table preprocess_datasets returns, the rows of an earlier dataset of
\* the list precede those of a later one, and within a dataset the human rows come
\* first, then the rows of the models in the order of the model list
C9_RowOrder ==
    (entry = "preprocess_datasets" /\ pc = "done") =>
        \A i, j \in 1..Len(final_df.rows) :
            i < j =>
                LET a == final_df.rows[i]
                    b == final_df.rows[j]
                IN /\ Pos(datasets, a[DATASET]) <= Pos(datasets, b[DATASET])
                   /\ a[DATASET] = b[DATASET] => ModelRank(a[MODEL]) <= ModelRank(b[MODEL])
\* two datasets and two models, the returned table holding human rows and rows of
\* both models for both datasets
C9_Witness ==
    /\ entry = "preprocess_datasets" /\ pc = "done"
    /\ Len(datasets) = 2 /\ Len(models) = 2
    /\ \A d \in 1..2 : \A m \in {HUMAN, models[1], models[2]} :
         \E i \in 1..Len(final_df.rows) :
            final_df.rows[i][DATASET] = datasets[d] /\ final_df.rows[i][MODEL] = m

\* the tokens of model and file names in character order
TokenOrder ==
    <<".", ".ndjson", "0", "1", "2", "3", "4", "5", "6", "7", "8", "9", "_",
      "beluga7b", "chat13b", "llama2", "mistral7b", "mrpc", "prompt", "stories", "temp">>
RECURSIVE TokensLeq(_, _)
TokensLeq(a, b) ==
    IF Len(a) = 0 THEN TRUE
    ELSE IF Len(b) = 0 THEN FALSE
    ELSE IF a[1] = b[1] THEN TokensLeq(Tail(a), Tail(b))
    ELSE Pos(TokenOrder, a[1]) < Pos(TokenOrder, b[1])
PathLeq(p, q) ==
    IF p.model = q.model THEN TokensLeq(p.name, q.name)
    ELSE TokensLeq(Underscored(p.model), Underscored(q.model))
\* C10: the AI paths get_paths returned are sorted lexicographically by path
C10_PathsSorted ==
    \A i, j \in 1..Len(ai_paths) : i < j => PathLeq(ai_paths[i], ai_paths[j])

----------------------------------------------------------------------------
(* get_paths on its own (SpecPaths) *)
\* every file of the requested model directories, models in list order, each
\* directory in the order iterdir() enumerates it
RECURSIVE ListedUpTo(_)
ListedUpTo(k) ==
    IF k = 0 THEN <<>>
    ELSE ListedUpTo(k - 1)
         \o [i \in 1..Len(dir_order[models[k]]) |-> Path(models[k], dir_order[models[k]][i])]
Listed == ListedUpTo(Len(models))
\* f"{dataset}_prompt_"
DatasetPrefix(d) == Underscored(d) \o <<"_", "prompt", "_">>

\* C11: when get_paths is given a prompt number, the paths it returns are the listed
\* files whose name starts with "<dataset>_prompt_<n>", whatever the temperature
\* is (the same result as with the prompt number alone); the files are filtered on
\* the temperature (name ends with "<temp>.ndjson") when the prompt number is absent.
C11_PromptNumberShadowsTemp ==
    pc = "returned" =>
        /\ Truthy(prompt_number) =>
             ai_paths = SelectSeq(Listed, LAMBDA p :
                           StartsWith(p.name, DatasetPrefix(dataset_arg) \o Digits(prompt_number[1])))
        /\ (~Truthy(prompt_number) /\ TruthyStr(temp)) =>
             ai_paths = SelectSeq(Listed, LAMBDA p : EndsWith(p.name, temp \o <<".ndjson">>))
\* both selectors given, and a returned file that the temperature filter would drop
C11_Witness ==
    /\ pc = "returned"
    /\ Truthy(prompt_number)
    /\ TruthyStr(temp)
    /\ \E k \in 1..Len(ai_paths) : ~EndsWith(ai_paths[k].name, temp \o <<".ndjson">>)

\* C12: every AI path that get_paths returns for dataset D has a file name that
\* starts with "D_prompt_", whichever selector is given.
C12_DatasetScoped ==
    pc = "returned" =>
        \A k \in 1..Len(ai_paths) : StartsWith(ai_paths[k].name, DatasetPrefix(dataset_arg))

\* C13: when get_paths ends with no AI path, it has printed the warning and returned
\* the empty list with the human path; get_paths raises only when the directory of a
\* requested model does not exist, never because no file matches.
C13_EmptyIsNotFatal ==
    /\ (pc = "returned" /\ Len(ai_paths) = 0) =>
           /\ stdout = <<EmptyWarning>>
           /\ human_path = HumanPath(dataset_arg)
           /\ err = "none"
    /\ (pc = "returned" /\ Len(ai_paths) > 0) => stdout = <<>>
    /\ (pc # "get_paths" /\ ~MissingDir(models, ai_dir)) => pc = "returned"
    /\ pc = "raised" => MissingDir(models, ai_dir)
\* files are listed for the requested models, none matches, the call has returned
C13_Witness ==
    /\ pc = "returned"
    /\ Len(Listed) > 0
    /\ ai_paths = <<>>
    /\ stdout = <<EmptyWarning>>

----------------------------------------------------------------------------
(* combine_data: truncation (SpecCombine) *)
\* the tables that the loop of combine_data has replaced so far
NormalisedSoFar == 1..idx

\* C14: with subset = N every normalised AI table has min(N, length) rows, the first
\* rows of the table it was made from, in their order.
C14_TruncatedToN ==
    subset # <<>> =>
        \A k \in NormalisedSoFar :
            Ids(ai_dfs[k]) = SubSeq(Ids(raw_dfs[k]), 1, Min(subset[1], Len(raw_dfs[k].rows)))

----------------------------------------------------------------------------
(* completions_generator: failure and the output file (SpecGen) *)
\* a call of the model callable has raised
Failed == \E k \in 1..Len(calls) : calls[k].out = <<>>

\* C16: once the model callable has failed on a document, completions_generator has
\* raised: the failing call is the last call made and no step follows, no table
\* has been returned (not even the earlier completions) and nothing has been written.
C16_FailureIsFatal ==
    Failed =>
        /\ gpc = "raised"
        /\ calls[Len(calls)].out = <<>>
        /\ \A k \in 1..(Len(calls) - 1) : calls[k].out # <<>>
        /\ calls[Len(calls)].prompt = Column(df, prompt_col)[Len(calls)]
        /\ completions_df = NoTable
        /\ sink = <<>>
        /\ ~ENABLED NextGen
\* the callable fails after an earlier document succeeded and before the last one,
\* in a run that was given an output path
C16_Witness ==
    /\ Failed
    /\ Len(calls) >= 2
    /\ Len(calls) < Len(df.rows)
    /\ outfilepath # None

\* C17: the output file is written at most once, only when an output path was given
\* and only after the model callable has returned a completion for every document;
\* while a document is still without completion nothing has been written.
C17_SinkOnlyAtCompletion ==
    /\ Len(sink) <= 1
    /\ outfilepath = None => sink = <<>>
    /\ gpc \in {"create_prompt", "loop", "raised"} => sink = <<>>
    /\ Len(completions) < Len(df.rows) => sink = <<>>
    /\ sink # <<>> =>
         /\ Len(calls) = Len(df.rows)
         /\ \A k \in 1..Len(calls) : calls[k].out # <<>>
         /\ Len(sink[1]) = Len(df.rows)
         /\ sink[1] = ToJsonLines(completions_df)
\* a run over several documents has written its file
C17_Witness ==
    /\ Len(sink) = 1
    /\ Len(df.rows) >= 2
    /\ Len(calls) = Len(df.rows)

----------------------------------------------------------------------------
(* extract_min_max_tokens (SpecLookup) *)
Called == min_max # NoResult

\* C18: called with one of the four dataset names, extract_min_max_tokens returns a
\* (min_tokens, max_new_tokens) pair, the one of its table; called with any other
\* string it fails, with an error whose message names the four valid datasets.
C18_LengthPolicyLookup ==
    Called =>
        IF dataset_arg \in Range(ValidDatasetKeys)
        THEN /\ min_max.ok
             /\ Len(min_max.pair) = 2
             /\ min_max.pair \in {ValidDatasets[dataset_arg], DataFnsAssigned(dataset_arg)}
        ELSE /\ ~min_max.ok
             /\ Range(ValidDatasetKeys) \subseteq Range(min_max.msg)

----------------------------------------------------------------------------
(* create_prompt (SpecPrompt) *)
\* the prompt numbers that the prompts dict has for a dataset
RegisteredNumbers(d) ==
    IF d = DAILYMAIL_CNN THEN {1, 2, 3}
    ELSE IF d \in {STORIES, MRPC} THEN {1, 2, 3, 4}
    ELSE IF d = DAILYDIALOG THEN {1, 2}
    ELSE {}
CreatePromptEnded == gpc # "create_prompt"

\* C19: for a registered (dataset, prompt number) create_prompt returns, and the
\* prompt of every document is the registered template followed at once by the
\* document's source text, the source text itself being left as it was.
C19_PromptIsTemplateThenSource ==
    (CreatePromptEnded /\ prompt_number \in RegisteredNumbers(datafile)) =>
        /\ gpc = "loop"
        /\ \A i \in 1..Len(df.rows) :
             /\ df.rows[i][SOURCE] = HumanTable(datafile, Ids(df)).rows[i][SOURCE]
             /\ df.rows[i][prompt_col]
                  = Prompts[PromptKey(datafile, prompt_number)] \o df.rows[i][SOURCE]
\* create_prompt has returned the prompts of several documents
C19_Witness ==
    /\ gpc = "loop"
    /\ datafile = MRPC
    /\ prompt_number = 3
    /\ Len(df.rows) >= 2
    /\ prompt_col \in Range(df.cols)

\* C20: for a (dataset, prompt number) without registered template create_prompt
\* raises, and the table it was given has no prompt column: it is as it was.
C20_UnknownPromptFails ==
    (CreatePromptEnded /\ prompt_number \notin RegisteredNumbers(datafile)) =>
        /\ gpc = "raised"
        /\ prompt_col \notin Range(df.cols)
        /\ df = HumanTable(datafile, Ids(df))
\* prompt 4 exists for stories and mrpc only: asked for dailymail_cnn, it has failed
C20_Witness ==
    /\ gpc = "raised"
    /\ datafile = DAILYMAIL_CNN
    /\ prompt_number = 4
    /\ Len(df.rows) > 0

----------------------------------------------------------------------------
(* Ownership of the caller's tables (SpecCombine, SpecPrompt) *)
\* the first table of the caller's list that does not have exactly one prompt_
\* column and one _completions column; 0 if there is none
FirstBad ==
    IF \A k \in 1..Len(raw_dfs) : OneOfEach(raw_dfs[k]) THEN 0
    ELSE CHOOSE k \in 1..Len(raw_dfs) :
            /\ ~OneOfEach(raw_dfs[k])
            /\ \A j \in 1..(k - 1) : OneOfEach(raw_dfs[j])

\* C21: after create_prompt has returned, the caller's document table has the
\* columns it had before; after combine_data has returned, the caller's list holds
\* the raw tables it held before and the caller's human table is as it was.
C21_InputsNotMutated ==
    /\ gpc = "loop" => df.cols = <<ID, SOURCE, HUMAN_COMPLETIONS>>
    /\ (entry = "combine_data" /\ pc = "done") =>
          /\ ai_dfs = raw_dfs
          /\ human_df = HumanTable(STORIES, Ids(human_df))

\* C22: when a table of the caller's list other than the first violates the column
\* schema, combine_data does not get past it and does not return: it raises, and
\* then the caller's list still holds the raw tables, none replaced by its
\* normalised form.
C22_NoPartialResults ==
    (entry = "combine_data" /\ FirstBad >= 2) =>
        /\ idx < FirstBad
        /\ pc # "done"
        /\ pc = "raised" => ai_dfs = raw_dfs

----------------------------------------------------------------------------
(* get_paths: selection by prompt number (SpecPaths) *)
\* name is D_prompt_n.ndjson or D_prompt_n_temp<t>.ndjson
IsFileOfPrompt(name, d, n) ==
    \/ name = DatasetPrefix(d) \o Digits(n) \o <<".ndjson">>
    \/ /\ StartsWith(name, DatasetPrefix(d) \o Digits(n) \o <<"_", "temp">>)
       /\ EndsWith(name, <<".ndjson">>)

\* C23: every file that get_paths returns for dataset D and prompt number n is a
\* file of prompt n of D, never a file of another prompt number.
C23_PromptSelectionExact ==
    (pc = "returned" /\ Truthy(prompt_number)) =>
        \A k \in 1..Len(ai_paths) :
            IsFileOfPrompt(ai_paths[k].name, dataset_arg, prompt_number[1])

----------------------------------------------------------------------------
(* The two extract_min_max_tokens (SpecLookup) *)
\* what the extract_min_max_tokens of the other module does on the same name
OtherLookup ==
    IF lookup_module = "run_pipeline" THEN DataFnsLookup(dataset_arg)
    ELSE RunPipelineLookup(dataset_arg)

\* C24: on each of the four dataset names the extract_min_max_tokens that was
\* called has returned the pair that the one of the other module returns, and on
\* any name it has failed exactly if the other one fails.
C24_SameMapping ==
    Called =>
        /\ dataset_arg \in Range(ValidDatasetKeys) =>
              /\ min_max.ok
              /\ OtherLookup.ok
              /\ min_max.pair = OtherLookup.pair
        /\ min_max.ok <=> OtherLookup.ok
====
